---------------------------- MODULE Spec2Model ----------------------------
(***************************************************************************)
(* Paradex onboarding / JWT authentication (src/src/onboarding.rs) and the *)
(* demo process that drives it (src/src/main.rs).                          *)
(*                                                                         *)
(* Representation.  A string is the sequence of its bytes.  A felt is a    *)
(* sequence of integers whose head is a tag:                               *)
(*   <<0>> \o nibbles   a number, big-endian hex digits, no leading zero   *)
(*   <<1, k, ...>>      hash_on_elements of k felts (length-prefixed)      *)
(*   <<2, k, ...>>      starknet_keccak of k bytes                         *)
(*   <<3>> \o nibbles   a number >= the field prime, reduced by the parser *)
(*   <<4, ...>>, <<5, ...>>   the r and s halves of a signature            *)
(*   <<6>> \o key       the public key of a secret scalar                  *)
(*   <<7>> \o hash      a domain hash made by another library scheme       *)
(* The hash and signing primitives are kept symbolic (collision free): the *)
(* program only composes them.                                             *)
(***************************************************************************)
EXTENDS Integers, Sequences, FiniteSets, TLC

VARIABLES
    pc,                 \* main: position in main()
    production,         \* main: args.production
    private_key,        \* main: env paradex_account_private_key_hex (NoneStr = unset)
    eth_account,        \* main: env eth_account_address
    starknet_account,   \* main: env paradex_account_address
    onboard_result,     \* main: what perform_onboarding returned
    jwt_result,         \* main: what get_jwt_token returned
    client_new_calls,   \* main: number of Client::new calls
    call,               \* the onboarding.rs function being executed ("none" outside)
    fpc,                \* position inside that function
    signing_key,        \* locals of the running function
    typed_data,
    account_felt,
    domain_hash,
    manual_domain_hash,
    message_struct_hash,
    message_hash,
    signature,
    now,
    expiry,
    response,
    log,                \* info! and warn! lines written so far
    signed,             \* history: every signing_key.sign call
    requests,           \* history: every HTTP request sent
    responses,          \* history: every HTTP response received
    lib_scheme,         \* how the typed-data library hashes a domain (fixed per run)
    h,                  \* the state of the pure-function specifications
    manager,            \* main: the WebsocketManager ("none", "running", "stopped")
    public_ids,         \* main: summary_id, bbo_id, ... as far as they are bound
    private_channel_ids,\* main: the Vec of the private channels' ids
    all_channel_ids,    \* main: what the unsubscribe loop has yet to visit
    subscribed,         \* history: every manager.subscribe call
    unsubscribed,       \* history: every manager.unsubscribe call
    orders              \* history: every order call on the client

mainVars == <<pc, production, private_key, eth_account, starknet_account,
              onboard_result, jwt_result, client_new_calls>>
localVars == <<signing_key, typed_data, account_felt, domain_hash,
               manual_domain_hash, message_struct_hash, message_hash,
               signature, now, expiry, response>>
histVars == <<log, signed, requests, responses>>
flowVars == <<call, fpc, localVars, histVars>>
demoVars == <<manager, public_ids, private_channel_ids, all_channel_ids,
              subscribed, unsubscribed, orders>>
vars == <<mainVars, flowVars, lib_scheme, h, demoVars>>

-----------------------------------------------------------------------------
(* Bounds of the model.                                                    *)

\* Longest string drawn exhaustively over Alphabet in the encoding specification.
MaxLen == 2

-----------------------------------------------------------------------------
(* Strings, hex digits, felts.                                             *)

NoneStr == <<-1>>

RECURSIVE Rep(_, _)
Rep(x, n) == IF n <= 0 THEN <<>> ELSE <<x>> \o Rep(x, n - 1)

RECURSIVE Concat(_)
Concat(ss) == IF ss = <<>> THEN <<>> ELSE Head(ss) \o Concat(Tail(ss))

\* format!("{:x}") of one hex digit: '0'..'9', 'a'..'f'
HexChar(d) == IF d < 10 THEN 48 + d ELSE 87 + d

\* the value of a hex digit character, -1 when it is none
HexVal(c) ==
    IF c >= 48 /\ c <= 57 THEN c - 48
    ELSE IF c >= 97 /\ c <= 102 THEN c - 87
    ELSE IF c >= 65 /\ c <= 70 THEN c - 55
    ELSE -1

IsDecDigit(c) == c >= 48 /\ c <= 57

RECURSIVE StripZeros(_)
StripZeros(ds) ==
    IF ds = <<>> THEN <<>>
    ELSE IF Head(ds) = 0 THEN StripZeros(Tail(ds)) ELSE ds

\* the Stark field prime 2^251 + 17 * 2^192 + 1, as 63 hex digits
PrimeHex == <<8>> \o Rep(0, 12) \o <<1, 1>> \o Rep(0, 47) \o <<1>>

RECURSIVE LexLess(_, _)
LexLess(a, b) ==
    IF a = <<>> THEN FALSE
    ELSE IF Head(a) # Head(b) THEN Head(a) < Head(b)
    ELSE LexLess(Tail(a), Tail(b))

\* ds, without leading zeros, is a number below the field prime
FitsField(ds) ==
    \/ Len(ds) < Len(PrimeHex)
    \/ Len(ds) = Len(PrimeHex) /\ LexLess(ds, PrimeHex)

FeltZero == <<0>>
FeltOfDigits(ds) == <<0>> \o StripZeros(ds)

RECURSIVE NatHex(_)
NatHex(n) == IF n = 0 THEN <<>> ELSE NatHex(n \div 16) \o <<n % 16>>

\* a JSON / Rust unsigned integer as a felt
FeltOfNat(n) == <<0>> \o NatHex(n)

RECURSIVE NatDec(_)
NatDec(n) == IF n < 10 THEN <<48 + n>> ELSE NatDec(n \div 10) \o <<48 + (n % 10)>>

\* u64::to_string
to_string(n) == NatDec(n)

\* s with elements 1..n dropped
Drop(s, n) == SubSeq(s, n + 1, Len(s))

HasPrefix0x(s) == Len(s) >= 2 /\ s[1] = 48 /\ s[2] = 120

ErrFelt == <<-1>>

\* Felt::from_hex and the typed-data parser's reading of a "0x..." string:
\* the set of results the parser may give.  Bad digits are refused; a number
\* below the prime, written in at most 64 digits, is that number; written in
\* more digits (leading zeros) it is that number or refused, depending on the
\* parser; a number of at most 64 digits that is not below the prime is
\* refused or reduced, depending on the parser; a longer one is refused.
FeltFromHex(s) ==
    LET body == IF HasPrefix0x(s) THEN Drop(s, 2) ELSE s
        ds == [i \in 1..Len(body) |-> HexVal(body[i])]
    IN  IF body = <<>> \/ \E i \in 1..Len(ds) : ds[i] = -1 THEN {ErrFelt}
        ELSE IF FitsField(StripZeros(ds))
             THEN IF Len(ds) <= 64 THEN {FeltOfDigits(ds)}
                  ELSE {ErrFelt, FeltOfDigits(ds)}
        ELSE IF Len(ds) <= 64 THEN {ErrFelt, <<3>> \o StripZeros(ds)}
        ELSE {ErrFelt}

-----------------------------------------------------------------------------
(* src/src/onboarding.rs: ParadexConfig, string_to_felt_hex.               *)

SN_GOERLI == <<83, 78, 95, 71, 79, 69, 82, 76, 73>>
SN_MAIN == <<83, 78, 95, 77, 65, 73, 78>>
Paradex == <<80, 97, 114, 97, 100, 101, 120>>

ParadexConfig_testnet == [starknet_chain_id |-> SN_GOERLI]
ParadexConfig_production == [starknet_chain_id |-> SN_MAIN]

\* "{:x}" in place of "{:02x}": a byte below 0x10 gives one digit
string_to_felt_hex_nopad(s) ==
    IF s = <<>> THEN <<48, 120, 48>>
    ELSE <<48, 120>> \o
         Concat([i \in 1..Len(s) |->
                   IF s[i] < 16 THEN <<HexChar(s[i])>>
                   ELSE <<HexChar(s[i] \div 16), HexChar(s[i] % 16)>>])

\* "0x0" for the empty string, else "0x" and format!("{:02x}") of every byte
string_to_felt_hex(s) ==
    IF s = <<>> THEN <<48, 120, 48>>
    ELSE <<48, 120>> \o
         Concat([i \in 1..Len(s) |-> <<HexChar(s[i] \div 16), HexChar(s[i] % 16)>>])

-----------------------------------------------------------------------------
(* The trusted primitives, symbolic.                                       *)

\* compute_hash_on_elements: a term over the ordered element list
compute_hash_on_elements(es) ==
    <<1, Len(es)>> \o Concat([i \in 1..Len(es) |-> <<Len(es[i])>> \o es[i]])

\* starknet_keccak over a byte string
starknet_keccak(bytes) == <<2, Len(bytes)>> \o bytes

\* SigningKey::sign: the (r, s) pair for a key and a hash
Sign(key, hash) ==
    [r |-> <<4, Len(key)>> \o key \o hash, s |-> <<5, Len(key)>> \o key \o hash]

NoSignature == [r |-> <<>>, s |-> <<>>]

\* verifying_key().scalar(): the public key of a secret scalar
PublicKey(key) == <<6>> \o key

-----------------------------------------------------------------------------
(* The typed-data documents of build_*_typed_data, and their reading by    *)
(* the typed-data library (serde_json::from_value, encoder, message_hash). *)

StrV(s) == [str |-> s, num |-> 0]
NumV(n) == [str |-> NoneStr, num |-> n]

felt == <<102, 101, 108, 116>>
StarkNetDomain == <<83, 116, 97, 114, 107, 78, 101, 116, 68, 111, 109, 97, 105, 110>>
DomainSchema ==
    << <<(<<110, 97, 109, 101>>), felt>>,                       \* name
       <<(<<118, 101, 114, 115, 105, 111, 110>>), felt>>,       \* version
       <<(<<99, 104, 97, 105, 110, 73, 100>>), felt>> >>        \* chainId
ConstantSchema ==
    << <<(<<97, 99, 116, 105, 111, 110>>), felt>> >>            \* action
RequestSchema ==
    << <<(<<109, 101, 116, 104, 111, 100>>), felt>>,                      \* method
       <<(<<112, 97, 116, 104>>), felt>>,                                 \* path
       <<(<<98, 111, 100, 121>>), felt>>,                                 \* body
       <<(<<116, 105, 109, 101, 115, 116, 97, 109, 112>>), felt>>,        \* timestamp
       <<(<<101, 120, 112, 105, 114, 97, 116, 105, 111, 110>>), felt>> >> \* expiration

\* the json!({...}) document of build_onboarding_typed_data
OnboardingJson(chain_id) ==
    [primaryType |-> <<67, 111, 110, 115, 116, 97, 110, 116>>,             \* "Constant"
     domainSchema |-> DomainSchema,
     schema |-> ConstantSchema,
     domain |-> [name |-> string_to_felt_hex(Paradex),
                 chainId |-> string_to_felt_hex(chain_id),
                 version |-> <<49>>],                                      \* "1"
     message |-> << StrV(<<79, 110, 98, 111, 97, 114, 100, 105, 110, 103>>) >>]  \* "Onboarding"

\* expiration filled with the timestamp: the expiration argument is dropped
AuthJson_noexpiry(chain_id, timestamp, expiration) ==
    [primaryType |-> <<82, 101, 113, 117, 101, 115, 116>>,
     domainSchema |-> DomainSchema,
     schema |-> RequestSchema,
     domain |-> [name |-> string_to_felt_hex(Paradex),
                 chainId |-> string_to_felt_hex(chain_id),
                 version |-> <<49>>],
     message |-> << StrV(<<80, 79, 83, 84>>),
                    StrV(<<47, 118, 49, 47, 97, 117, 116, 104>>),
                    StrV(<<>>),
                    NumV(timestamp),
                    NumV(timestamp) >>]

\* the json!({...}) document of build_auth_typed_data
AuthJson(chain_id, timestamp, expiration) ==
    [primaryType |-> <<82, 101, 113, 117, 101, 115, 116>>,                 \* "Request"
     domainSchema |-> DomainSchema,
     schema |-> RequestSchema,
     domain |-> [name |-> string_to_felt_hex(Paradex),
                 chainId |-> string_to_felt_hex(chain_id),
                 version |-> <<49>>],                                      \* "1"
     message |-> << StrV(<<80, 79, 83, 84>>),                              \* "POST"
                    StrV(<<47, 118, 49, 47, 97, 117, 116, 104>>),          \* "/v1/auth"
                    StrV(<<>>),                                            \* ""
                    NumV(timestamp),
                    NumV(expiration) >>]

RECURSIVE DecNat(_)
DecNat(s) == IF s = <<>> THEN 0 ELSE DecNat(SubSeq(s, 1, Len(s) - 1)) * 10 + (s[Len(s)] - 48)

\* the library's felt of a JSON value declared "felt": a number as it is; a
\* string as hex when it starts 0x, as decimal when all digits, else as a
\* short string (its bytes packed big-endian, at most 31 of them)
LibFelt(v) ==
    IF v.str = NoneStr THEN {FeltOfNat(v.num)}
    ELSE IF HasPrefix0x(v.str) THEN FeltFromHex(v.str)
    ELSE IF v.str # <<>> /\ \A i \in 1..Len(v.str) : IsDecDigit(v.str[i])
         THEN {FeltOfNat(DecNat(v.str))}
    ELSE IF Len(v.str) > 31 THEN {ErrFelt}
    ELSE {FeltOfDigits(Concat([i \in 1..Len(v.str) |-> <<v.str[i] \div 16, v.str[i] % 16>>]))}

NoTypedData ==
    [ok |-> FALSE, primaryType |-> <<>>, domainSchema |-> <<>>, schema |-> <<>>,
     domain |-> [name |-> <<>>, version |-> <<>>, chain_id |-> <<>>],
     message |-> <<>>]

\* serde_json::from_value::<TypedData>: the domain's three felts are read
\* now, the message stays a JSON value.  A field that is no felt makes the
\* whole reading fail.
from_value(json) ==
    { IF n = ErrFelt \/ c = ErrFelt \/ v = ErrFelt
      THEN NoTypedData
      ELSE [ok |-> TRUE, primaryType |-> json.primaryType,
            domainSchema |-> json.domainSchema, schema |-> json.schema,
            domain |-> [name |-> n, version |-> v, chain_id |-> c],
            message |-> json.message]
      : n \in LibFelt(StrV(json.domain.name)),
        c \in LibFelt(StrV(json.domain.chainId)),
        v \in LibFelt(StrV(json.domain.version)) }

\* build_onboarding_typed_data: the readings of the document; one that is
\* not ok is the panic of .expect("Failed to parse TypedData")
build_onboarding_typed_data(chain_id) == from_value(OnboardingJson(chain_id))

\* build_auth_typed_data, likewise
build_auth_typed_data(chain_id, timestamp, expiration) ==
    from_value(AuthJson(chain_id, timestamp, expiration))

\* the library's encode_type: Name(field:type,field:type,...)
EncodeType(name, schema) ==
    name \o <<40>> \o
    Concat([i \in 1..Len(schema) |->
              (IF i > 1 THEN <<44>> ELSE <<>>) \o schema[i][1] \o <<58>> \o schema[i][2]])
    \o <<41>>

TypeHash(name, schema) == starknet_keccak(EncodeType(name, schema))

\* domain().encoded_hash() by the schema-driven path (revision 0)
SchemaDomainHash(td) ==
    compute_hash_on_elements(<<TypeHash(StarkNetDomain, td.domainSchema),
                               td.domain.name, td.domain.version, td.domain.chain_id>>)

\* what domain().encoded_hash() returns.  The value comes from the library
\* and the flows take it as it is: under lib_scheme "schema" it is the
\* schema-driven value above, under "other" the same elements hashed by
\* another scheme, which is another felt.
EncodedHash(td) ==
    IF lib_scheme = "schema" THEN SchemaDomainHash(td) ELSE <<7>> \o SchemaDomainHash(td)

\* encode_value(primary_type, message): the struct hash, ErrFelt on a value
\* that is no felt
EncodeValue(td) ==
    LET fs == [i \in 1..Len(td.message) |-> CHOOSE f \in LibFelt(td.message[i]) : TRUE]
    IN  IF \E i \in 1..Len(fs) : fs[i] = ErrFelt THEN ErrFelt
        ELSE compute_hash_on_elements(<<TypeHash(td.primaryType, td.schema)>> \o fs)

\* "StarkNet Message" as a short string
StarkNetMessage ==
    FeltOfDigits(Concat([i \in 1..16 |->
        LET b == <<83, 116, 97, 114, 107, 78, 101, 116, 32, 77, 101, 115, 115, 97, 103, 101>>[i]
        IN  <<b \div 16, b % 16>>]))

\* message_hash(account): prefix, domain hash, account, struct hash
MessageHash(dh, td, account) ==
    IF EncodeValue(td) = ErrFelt THEN ErrFelt
    ELSE compute_hash_on_elements(<<StarkNetMessage, dh, account, EncodeValue(td)>>)

\* the hand-computed domain hash of perform_onboarding and get_jwt_token:
\* starknet_keccak(b"StarkNetDomain(name:felt,version:felt,chainId:felt)")
\* chained with domain.name, domain.version, domain.chain_id
ManualDomainHash(td) ==
    compute_hash_on_elements(
      <<starknet_keccak(<<83, 116, 97, 114, 107, 78, 101, 116, 68, 111, 109, 97, 105, 110,
                          40, 110, 97, 109, 101, 58, 102, 101, 108, 116, 44,
                          118, 101, 114, 115, 105, 111, 110, 58, 102, 101, 108, 116, 44,
                          99, 104, 97, 105, 110, 73, 100, 58, 102, 101, 108, 116, 41>>),
        td.domain.name, td.domain.version, td.domain.chain_id>>)

-----------------------------------------------------------------------------
(* Inputs of the demo process: environment, clock, signer, server.         *)

KeyStrings == { <<48, 120, 49>>, <<48, 120, 122, 122>> }                   \* "0x1", "0xzz"
AccountStrings ==
    { <<48, 120, 49>>, <<48, 120, 48, 49>>, <<48, 120, 122, 122>> }        \* "0x1", "0x01", "0xzz"
EthStrings == { <<48, 120, 101>> }                                         \* "0xe"
Nows == {0, 1700000000}
Statuses == {200, 204, 409, 500}

\* jwt_token values: "ey"; 21 times 'a'; 19 times 'a', then U+00E9 (bytes
\* c3 a9), then 'a'
Tokens == { <<101, 121>>, Rep(97, 21), Rep(97, 19) \o <<195, 169, 97>> }

NoBody == [text |-> <<>>, jwt |-> NoneStr]
\* {"jwt_token":"<t>"}
JsonBody(t) ==
    [text |-> <<123, 34, 106, 119, 116, 95, 116, 111, 107, 101, 110, 34, 58, 34>>
              \o t \o <<34, 125>>,
     jwt |-> t]
Bodies ==
    { NoBody,
      [text |-> <<123, 34, 101, 114, 114, 111, 114, 34, 58, 34, 120, 34, 125>>,
       jwt |-> NoneStr] }                                                  \* {"error":"x"}
    \cup { JsonBody(t) : t \in Tokens }

NoResponse == [status |-> 0, body |-> NoBody]

\* StatusCode::is_success
is_success(status) == status >= 200 /\ status <= 299

-----------------------------------------------------------------------------
(* Results.  An error is its format string and the text interpolated into  *)
(* it; the error's message is the one followed by the other.               *)

NoResult == [tag |-> "none", err |-> "", text |-> <<>>, token |-> <<>>]
Ok(token) == [tag |-> "Ok", err |-> "", text |-> <<>>, token |-> token]
Err(e, text) == [tag |-> "Err", err |-> e, text |-> text, token |-> <<>>]

LogLine(line, vals) == [line |-> line, vals |-> vals]

ClearLocals ==
    /\ signing_key' = <<>>
    /\ typed_data' = NoTypedData
    /\ account_felt' = <<>>
    /\ domain_hash' = <<>>
    /\ manual_domain_hash' = <<>>
    /\ message_struct_hash' = <<>>
    /\ message_hash' = <<>>
    /\ signature' = NoSignature
    /\ now' = 0
    /\ expiry' = 0
    /\ response' = NoResponse

\* the running function returns res to main
Return(res) ==
    /\ IF call = "perform_onboarding"
       THEN onboard_result' = res /\ pc' = "onboard_returned" /\ UNCHANGED jwt_result
       ELSE jwt_result' = res /\ pc' = "jwt_returned" /\ UNCHANGED onboard_result
    /\ call' = "none"
    /\ fpc' = "none"
    /\ ClearLocals
    /\ UNCHANGED <<production, private_key, eth_account, starknet_account,
                   client_new_calls, lib_scheme, h, demoVars>>

\* a panic unwinds main
Panic ==
    /\ pc' = "panicked"
    /\ call' = "none"
    /\ fpc' = "none"
    /\ ClearLocals
    /\ UNCHANGED <<production, private_key, eth_account, starknet_account,
                   onboard_result, jwt_result, client_new_calls, lib_scheme, h, demoVars>>

\* the running function moves on to its step next
Goto(next) ==
    /\ fpc' = next
    /\ UNCHANGED <<call, mainVars, lib_scheme, h, demoVars>>

config == IF production THEN ParadexConfig_production ELSE ParadexConfig_testnet

-----------------------------------------------------------------------------
(* perform_onboarding and get_jwt_token, step by step.  The two functions  *)
(* share their text from the account address to the signature.             *)

\* Felt::from_hex(private_key), SigningKey::from_secret_scalar
ParseKey(fn, next) ==
    /\ call = fn /\ fpc = "parse_key"
    /\ \E k \in FeltFromHex(private_key) :
         IF k = ErrFelt
         THEN /\ Return(Err("Failed to parse private key: ", <<>>))
              /\ UNCHANGED histVars
         ELSE /\ signing_key' = k
              /\ Goto(next)
              /\ UNCHANGED <<typed_data, account_felt, domain_hash, manual_domain_hash,
                             message_struct_hash, message_hash, signature, now, expiry,
                             response, histVars>>

\* the window counted in minutes
Expiry_minutes(t) == t + 24 * 60

\* expiry = now + 24 * 60 * 60
Expiry(t) == t + 24 * 60 * 60

\* SystemTime::now() ... as_secs(); expiry = now + 24 * 60 * 60
get_jwt_token_Now ==
    /\ call = "get_jwt_token" /\ fpc = "now"
    /\ \E t \in Nows :
         /\ now' = t
         /\ expiry' = Expiry(t)
    /\ Goto("build")
    /\ UNCHANGED <<signing_key, typed_data, account_felt, domain_hash, manual_domain_hash,
                   message_struct_hash, message_hash, signature, response, histVars>>

\* build_*_typed_data(&config.starknet_chain_id, ...)
Build(fn, tds) ==
    /\ call = fn /\ fpc = "build"
    /\ \E td \in tds :
         IF ~td.ok
         THEN Panic /\ UNCHANGED histVars
         ELSE /\ typed_data' = td
              /\ Goto("parse_account")
              /\ UNCHANGED <<signing_key, account_felt, domain_hash, manual_domain_hash,
                             message_struct_hash, message_hash, signature, now, expiry,
                             response, histVars>>

\* an account address that is no hex read as felt zero
ParseAccount_lenient(fn) ==
    /\ call = fn /\ fpc = "parse_account"
    /\ \E a \in FeltFromHex(starknet_account) :
         /\ account_felt' = IF a = ErrFelt THEN FeltZero ELSE a
         /\ Goto("hashes")
         /\ UNCHANGED <<signing_key, typed_data, domain_hash, manual_domain_hash,
                        message_struct_hash, message_hash, signature, now, expiry,
                        response, histVars>>

\* Felt::from_hex(account_address)
ParseAccount(fn) ==
    /\ call = fn /\ fpc = "parse_account"
    /\ \E a \in FeltFromHex(starknet_account) :
         IF a = ErrFelt
         THEN /\ Return(Err("Failed to parse account address: ", <<>>))
              /\ UNCHANGED histVars
         ELSE /\ account_felt' = a
              /\ Goto("hashes")
              /\ UNCHANGED <<signing_key, typed_data, domain_hash, manual_domain_hash,
                             message_struct_hash, message_hash, signature, now, expiry,
                             response, histVars>>

\* the two domain hashes compared, and the flow ended when they differ
Hashes_abort(fn) ==
    /\ call = fn /\ fpc = "hashes"
    /\ LET dh == EncodedHash(typed_data)
       IN
         IF EncodeValue(typed_data) = ErrFelt
         THEN /\ Return(Err("Failed to encode message struct: ", <<>>))
              /\ UNCHANGED histVars
         ELSE IF dh # ManualDomainHash(typed_data)
         THEN /\ Return(Err("SchemaMismatch: ", <<>>))
              /\ UNCHANGED histVars
         ELSE /\ domain_hash' = dh
              /\ message_struct_hash' = EncodeValue(typed_data)
              /\ manual_domain_hash' = ManualDomainHash(typed_data)
              /\ log' = log \o
                   << LogLine("typed data JSON", <<>>),
                      LogLine("domain type hash", <<>>),
                      LogLine("domain fields",
                              <<typed_data.domain.name, typed_data.domain.version,
                                typed_data.domain.chain_id>>),
                      LogLine("domain_hash, manual_domain_hash, message_struct_hash",
                              <<dh, ManualDomainHash(typed_data), EncodeValue(typed_data)>>) >>
              /\ Goto("message_hash")
              /\ UNCHANGED <<signing_key, typed_data, account_felt, message_hash, signature,
                             now, expiry, response, signed, requests, responses>>

\* domain().encoded_hash(), encode_value(...)?, the hand-computed domain
\* hash, and the four info! lines
Hashes(fn) ==
    /\ call = fn /\ fpc = "hashes"
    /\ LET dh == EncodedHash(typed_data)
       IN
         IF EncodeValue(typed_data) = ErrFelt
         THEN /\ Return(Err("Failed to encode message struct: ", <<>>))
              /\ UNCHANGED histVars
         ELSE /\ domain_hash' = dh
              /\ message_struct_hash' = EncodeValue(typed_data)
              /\ manual_domain_hash' = ManualDomainHash(typed_data)
              /\ log' = log \o
                   << LogLine("typed data JSON", <<>>),
                      LogLine("domain type hash", <<>>),
                      LogLine("domain fields",
                              <<typed_data.domain.name, typed_data.domain.version,
                                typed_data.domain.chain_id>>),
                      LogLine("domain_hash, manual_domain_hash, message_struct_hash",
                              <<dh, ManualDomainHash(typed_data), EncodeValue(typed_data)>>) >>
              /\ Goto("message_hash")
              /\ UNCHANGED <<signing_key, typed_data, account_felt, message_hash, signature,
                             now, expiry, response, signed, requests, responses>>

\* typed_data.message_hash(account_felt)?, and its info! line
MessageHashStep(fn) ==
    /\ call = fn /\ fpc = "message_hash"
    /\ LET mh == MessageHash(domain_hash, typed_data, account_felt)
       IN  IF mh = ErrFelt
           THEN /\ Return(Err("Failed to encode TypedData: ", <<>>))
                /\ UNCHANGED histVars
           ELSE /\ message_hash' = mh
                /\ log' = Append(log, LogLine("revision, message hash", <<mh>>))
                /\ Goto("sign")
                /\ UNCHANGED <<signing_key, typed_data, account_felt, domain_hash,
                               manual_domain_hash, message_struct_hash, signature, now,
                               expiry, response, signed, requests, responses>>

\* signing_key.sign(&message_hash)?
SignStep(fn) ==
    /\ call = fn /\ fpc = "sign"
    /\ \E ok \in BOOLEAN :
         /\ signed' = Append(signed, [fn |-> fn, hash |-> message_hash, ok |-> ok])
         /\ IF ok
            THEN /\ signature' = Sign(signing_key, message_hash)
                 /\ Goto("send")
                 /\ UNCHANGED <<signing_key, typed_data, account_felt, domain_hash,
                                manual_domain_hash, message_struct_hash, message_hash, now,
                                expiry, response>>
            ELSE Return(Err("sign: ", <<>>))
    /\ UNCHANGED <<log, requests, responses>>

\* the POST of perform_onboarding
OnboardingRequest ==
    [fn |-> "perform_onboarding",
     url |-> "/onboarding",
     content_type |-> "application/json",
     ethereum_account |-> eth_account,
     starknet_account |-> starknet_account,
     starknet_signature |-> signature,
     timestamp |-> <<>>,
     signature_expiration |-> <<>>,
     public_key |-> PublicKey(signing_key)]

\* the POST of get_jwt_token
AuthRequest ==
    [fn |-> "get_jwt_token",
     url |-> "/auth",
     content_type |-> "application/json",
     ethereum_account |-> <<>>,
     starknet_account |-> starknet_account,
     starknet_signature |-> signature,
     timestamp |-> to_string(now),
     signature_expiration |-> to_string(expiry),
     public_key |-> <<>>]

\* http_client.post(&url)...send(): the request leaves
Send(fn, req) ==
    /\ call = fn /\ fpc = "send"
    /\ log' = Append(log, LogLine("POST", <<>>))
    /\ requests' = Append(requests, req)
    /\ Goto("await")
    /\ UNCHANGED <<localVars, signed, responses>>

\* a transport error answered by sending again
Await_retry(fn) ==
    /\ call = fn /\ fpc = "await"
    /\ \/ /\ Goto("send")
          /\ UNCHANGED <<localVars, histVars>>
       \/ \E st \in Statuses, b \in Bodies :
            /\ response' = [status |-> st, body |-> b]
            /\ responses' = Append(responses, [fn |-> fn, status |-> st, body |-> b])
            /\ Goto("status")
            /\ UNCHANGED <<signing_key, typed_data, account_felt, domain_hash,
                           manual_domain_hash, message_struct_hash, message_hash, signature,
                           now, expiry, log, signed, requests>>

\* .await?: a transport error is returned, a response is kept
Await(fn) ==
    /\ call = fn /\ fpc = "await"
    /\ \/ /\ Return(Err("reqwest: ", <<>>))
          /\ UNCHANGED histVars
       \/ \E st \in Statuses, b \in Bodies :
            /\ response' = [status |-> st, body |-> b]
            /\ responses' = Append(responses, [fn |-> fn, status |-> st, body |-> b])
            /\ Goto("status")
            /\ UNCHANGED <<signing_key, typed_data, account_felt, domain_hash,
                           manual_domain_hash, message_struct_hash, message_hash, signature,
                           now, expiry, log, signed, requests>>

\* success taken to be status 200 alone
OnboardingOutcome_only200(resp, readable) ==
    IF resp.status = 200 THEN Ok(<<>>)
    ELSE Err("Onboarding failed: ", IF readable THEN resp.body.text ELSE <<>>)

\* perform_onboarding's answer to a response; readable: response.text()
\* gave the body
OnboardingOutcome(resp, readable) ==
    IF is_success(resp.status) THEN Ok(<<>>)
    ELSE Err("Onboarding failed: ", IF readable THEN resp.body.text ELSE <<>>)

\* the token taken from the body whatever the status
AuthOutcome_anystatus(resp, readable) ==
    IF readable /\ resp.body.jwt # NoneStr THEN Ok(resp.body.jwt)
    ELSE IF is_success(resp.status) THEN Err("reqwest: ", <<>>)
    ELSE Err("JWT auth failed: ", IF readable THEN resp.body.text ELSE <<>>)

\* get_jwt_token's answer to a response; readable: the body could be read
AuthOutcome(resp, readable) ==
    IF is_success(resp.status)
    THEN IF readable /\ resp.body.jwt # NoneStr THEN Ok(resp.body.jwt)
         ELSE Err("reqwest: ", <<>>)
    ELSE Err("JWT auth failed: ", IF readable THEN resp.body.text ELSE <<>>)

\* if response.status().is_success() { ... } else { ... }
Respond(fn) ==
    /\ call = fn /\ fpc = "status"
    /\ \E readable \in BOOLEAN :
         LET res == IF fn = "perform_onboarding"
                    THEN OnboardingOutcome(response, readable)
                    ELSE AuthOutcome(response, readable)
         IN  /\ Return(res)
             /\ log' = IF res.tag = "Ok" THEN Append(log, LogLine("successful", <<>>)) ELSE log
    /\ UNCHANGED <<signed, requests, responses>>

perform_onboarding_ParseKey == ParseKey("perform_onboarding", "build")
perform_onboarding_Build ==
    Build("perform_onboarding", build_onboarding_typed_data(config.starknet_chain_id))
perform_onboarding_ParseAccount == ParseAccount("perform_onboarding")
perform_onboarding_Hashes == Hashes("perform_onboarding")
perform_onboarding_MessageHash == MessageHashStep("perform_onboarding")
perform_onboarding_Sign == SignStep("perform_onboarding")
perform_onboarding_Send == Send("perform_onboarding", OnboardingRequest)
perform_onboarding_Await == Await("perform_onboarding")
perform_onboarding_Respond == Respond("perform_onboarding")

get_jwt_token_ParseKey == ParseKey("get_jwt_token", "now")
get_jwt_token_Build ==
    Build("get_jwt_token", build_auth_typed_data(config.starknet_chain_id, now, expiry))
get_jwt_token_ParseAccount == ParseAccount("get_jwt_token")
get_jwt_token_Hashes == Hashes("get_jwt_token")
get_jwt_token_MessageHash == MessageHashStep("get_jwt_token")
get_jwt_token_Sign == SignStep("get_jwt_token")
get_jwt_token_Send == Send("get_jwt_token", AuthRequest)
get_jwt_token_Await == Await("get_jwt_token")
get_jwt_token_Respond == Respond("get_jwt_token")

-----------------------------------------------------------------------------
(* main(), to the creation of the trading client.                          *)

\* str::is_char_boundary
is_char_boundary(s, n) ==
    n = 0 \/ n = Len(s) \/ (n < Len(s) /\ ~(s[n + 1] >= 128 /\ s[n + 1] <= 191))

Min(a, b) == IF a < b THEN a ELSE b

\* if let Some(private_key) = private_key { if let (Some, Some) = ... }
main_Start ==
    /\ pc = "start"
    /\ IF private_key = NoneStr
       THEN pc' = "ws_new" /\ UNCHANGED <<call, fpc, log>>
       ELSE IF eth_account # NoneStr /\ starknet_account # NoneStr
       THEN /\ pc' = "onboarding"
            /\ call' = "perform_onboarding"
            /\ fpc' = "parse_key"
            /\ log' = Append(log, LogLine("Performing onboarding...", <<>>))
       ELSE /\ pc' = "client_new"
            /\ log' = Append(log, LogLine("warn: Skipping onboarding.", <<>>))
            /\ UNCHANGED <<call, fpc>>
    /\ UNCHANGED <<production, private_key, eth_account, starknet_account,
                   onboard_result, jwt_result, client_new_calls,
                   localVars, signed, requests, responses, lib_scheme, h, demoVars>>

\* if let Err(e) = perform_onboarding(...).await { warn! } else { info! };
\* then the call of get_jwt_token
main_AfterOnboarding ==
    /\ pc = "onboard_returned"
    /\ pc' = "jwt"
    /\ call' = "get_jwt_token"
    /\ fpc' = "parse_key"
    /\ log' = log \o
         << IF onboard_result.tag = "Err"
            THEN LogLine("warn: Onboarding failed (may already be onboarded)",
                         <<onboard_result.text>>)
            ELSE LogLine("Onboarding completed successfully", <<>>),
            LogLine("Getting JWT token...", <<>>) >>
    /\ UNCHANGED <<production, private_key, eth_account, starknet_account,
                   onboard_result, jwt_result, client_new_calls,
                   localVars, signed, requests, responses, lib_scheme, h, demoVars>>

\* match get_jwt_token(...).await { Ok(jwt) => info!(&jwt[..jwt.len().min(20)]),
\* Err(e) => warn! }: the slice panics off a char boundary
main_AfterJwt ==
    /\ pc = "jwt_returned"
    /\ IF jwt_result.tag = "Ok"
       THEN LET n == Min(Len(jwt_result.token), 20)
            IN  IF is_char_boundary(jwt_result.token, n)
                THEN /\ pc' = "client_new"
                     /\ log' = Append(log, LogLine("JWT token obtained",
                                                   <<SubSeq(jwt_result.token, 1, n)>>))
                ELSE pc' = "panicked" /\ UNCHANGED log
       ELSE /\ pc' = "client_new"
            /\ log' = Append(log, LogLine("warn: Failed to get JWT token",
                                          <<jwt_result.text>>))
    /\ UNCHANGED <<production, private_key, eth_account, starknet_account,
                   onboard_result, jwt_result, client_new_calls,
                   call, fpc, localVars, signed, requests, responses, lib_scheme, h, demoVars>>

\* Client::new(url, Some(private_key.clone())).await.unwrap(), then the
\* three account queries
main_ClientNew ==
    /\ pc = "client_new"
    /\ client_new_calls' = client_new_calls + 1
    /\ \E ok \in BOOLEAN :
         IF ok
         THEN /\ pc' = "ws_new"
              /\ log' = log \o << LogLine("Account Information", <<>>),
                                  LogLine("Balance", <<>>),
                                  LogLine("Positions", <<>>) >>
         ELSE pc' = "panicked" /\ UNCHANGED log
    /\ UNCHANGED <<production, private_key, eth_account, starknet_account,
                   onboard_result, jwt_result,
                   call, fpc, localVars, signed, requests, responses, lib_scheme, h, demoVars>>

NoHarness ==
    [stage |-> "off", s |-> <<>>, hex |-> <<>>, felt |-> <<>>, dec |-> <<>>,
     a |-> <<>>, b |-> <<>>, ha |-> <<>>, hb |-> <<>>]

\* nothing called yet: no result, no locals, no history
FlowIdle ==
    /\ onboard_result = NoResult
    /\ jwt_result = NoResult
    /\ client_new_calls = 0
    /\ call = "none"
    /\ fpc = "none"
    /\ signing_key = <<>>
    /\ typed_data = NoTypedData
    /\ account_felt = <<>>
    /\ domain_hash = <<>>
    /\ manual_domain_hash = <<>>
    /\ message_struct_hash = <<>>
    /\ message_hash = <<>>
    /\ signature = NoSignature
    /\ now = 0
    /\ expiry = 0
    /\ response = NoResponse
    /\ log = <<>>
    /\ signed = <<>>
    /\ requests = <<>>
    /\ responses = <<>>
    /\ manager = "none"
    /\ public_ids = <<>>
    /\ private_channel_ids = <<>>
    /\ all_channel_ids = <<>>
    /\ subscribed = <<>>
    /\ unsubscribed = <<>>
    /\ orders = <<>>

Init ==
    /\ pc = "start"
    /\ production \in BOOLEAN
    /\ private_key \in {NoneStr} \cup KeyStrings
    /\ eth_account \in {NoneStr} \cup EthStrings
    /\ starknet_account \in {NoneStr} \cup AccountStrings
    /\ FlowIdle
    /\ lib_scheme \in {"schema", "other"}
    /\ h = NoHarness

Next ==
    \/ main_Start
    \/ perform_onboarding_ParseKey
    \/ perform_onboarding_Build
    \/ perform_onboarding_ParseAccount
    \/ perform_onboarding_Hashes
    \/ perform_onboarding_MessageHash
    \/ perform_onboarding_Sign
    \/ perform_onboarding_Send
    \/ perform_onboarding_Await
    \/ perform_onboarding_Respond
    \/ main_AfterOnboarding
    \/ get_jwt_token_ParseKey
    \/ get_jwt_token_Now
    \/ get_jwt_token_Build
    \/ get_jwt_token_ParseAccount
    \/ get_jwt_token_Hashes
    \/ get_jwt_token_MessageHash
    \/ get_jwt_token_Sign
    \/ get_jwt_token_Send
    \/ get_jwt_token_Await
    \/ get_jwt_token_Respond
    \/ main_AfterJwt
    \/ main_ClientNew

Spec == Init /\ [][Next]_vars

-----------------------------------------------------------------------------
(* src/src/main.rs from line 110 on: the WebSocket manager, the            *)
(* subscriptions, the order calls, the unsubscribe loop and stop.  This    *)
(* part reads nothing of what perform_onboarding and get_jwt_token did, so *)
(* it is checked on the runs of main that skip them (SpecDemo): no private *)
(* key, or a private key without both account addresses.                   *)

\* client_private.is_some(), once main is past Client::new
client_private == private_key # NoneStr

PublicChannels ==
    <<"MarketSummary", "BBO", "Trades", "OrderBook", "OrderBookDeltas", "FundingData">>
PrivateChannels ==
    <<"Orders", "Fills", "Position", "Account", "BalanceEvents", "FundingPayments">>

\* the subscribe calls that returned Ok(id)
Granted == {i \in 1..Len(subscribed) : subscribed[i].ok}

\* the identifier the manager hands out next: one it has not handed out
FreshId == Cardinality(Granted) + 1

\* WebsocketManager::new(url, Some(client.clone()) or None).await
main_WsNew ==
    /\ pc = "ws_new"
    /\ manager' = "running"
    /\ pc' = "subscribe_public"
    /\ UNCHANGED <<production, private_key, eth_account, starknet_account,
                   onboard_result, jwt_result, client_new_calls, flowVars, lib_scheme, h,
                   public_ids, private_channel_ids, all_channel_ids,
                   subscribed, unsubscribed, orders>>

\* let .._id = manager.subscribe(<public channel>, ..).await.unwrap(), six
\* times in a row; then the private block, or past it
main_SubscribePublic ==
    /\ pc = "subscribe_public"
    /\ LET channel == PublicChannels[Len(public_ids) + 1]
       IN  \E ok \in BOOLEAN :
             IF ok
             THEN /\ subscribed' = Append(subscribed,
                                          [channel |-> channel, ok |-> TRUE, id |-> FreshId])
                  /\ public_ids' = Append(public_ids, FreshId)
                  /\ pc' = IF Len(public_ids) + 1 < Len(PublicChannels) THEN "subscribe_public"
                           ELSE IF client_private THEN "subscribe_private"
                           ELSE "sleep"
             ELSE /\ subscribed' = Append(subscribed,
                                          [channel |-> channel, ok |-> FALSE, id |-> 0])
                  /\ pc' = "panicked"
                  /\ UNCHANGED public_ids
    /\ UNCHANGED <<production, private_key, eth_account, starknet_account,
                   onboard_result, jwt_result, client_new_calls, flowVars, lib_scheme, h,
                   manager, private_channel_ids, all_channel_ids, unsubscribed, orders>>

\* if client_private.is_some(): manager.subscribe(<private channel>, ..)
\* .await.unwrap() and private_channel_ids.push(id), six times in a row
main_SubscribePrivate ==
    /\ pc = "subscribe_private"
    /\ LET channel == PrivateChannels[Len(private_channel_ids) + 1]
       IN  \E ok \in BOOLEAN :
             IF ok
             THEN /\ subscribed' = Append(subscribed,
                                          [channel |-> channel, ok |-> TRUE, id |-> FreshId])
                  /\ private_channel_ids' = Append(private_channel_ids, FreshId)
                  /\ pc' = IF Len(private_channel_ids) + 1 < Len(PrivateChannels)
                           THEN "subscribe_private"
                           ELSE "sleep"
             ELSE /\ subscribed' = Append(subscribed,
                                          [channel |-> channel, ok |-> FALSE, id |-> 0])
                  /\ pc' = "panicked"
                  /\ UNCHANGED private_channel_ids
    /\ UNCHANGED <<production, private_key, eth_account, starknet_account,
                   onboard_result, jwt_result, client_new_calls, flowVars, lib_scheme, h,
                   manager, public_ids, all_channel_ids, unsubscribed, orders>>

\* sleep(2 s); if let Some((ref client, _)) = client_private { orders }
main_Sleep ==
    /\ pc = "sleep"
    /\ pc' = IF client_private THEN "create_order" ELSE "collect"
    /\ UNCHANGED <<production, private_key, eth_account, starknet_account,
                   onboard_result, jwt_result, client_new_calls, flowVars, lib_scheme, h,
                   demoVars>>

\* client.create_order(order_request).await.unwrap()
main_CreateOrder ==
    /\ pc = "create_order"
    /\ \E ok \in BOOLEAN :
         /\ orders' = Append(orders, [op |-> "create_order", ok |-> ok])
         /\ pc' = IF ok THEN "modify_order" ELSE "panicked"
    /\ UNCHANGED <<production, private_key, eth_account, starknet_account,
                   onboard_result, jwt_result, client_new_calls, flowVars, lib_scheme, h,
                   manager, public_ids, private_channel_ids, all_channel_ids,
                   subscribed, unsubscribed>>

\* sleep(5 s); client.modify_order(modify_request).await.unwrap()
main_ModifyOrder ==
    /\ pc = "modify_order"
    /\ \E ok \in BOOLEAN :
         /\ orders' = Append(orders, [op |-> "modify_order", ok |-> ok])
         /\ pc' = IF ok THEN "cancel" ELSE "panicked"
    /\ UNCHANGED <<production, private_key, eth_account, starknet_account,
                   onboard_result, jwt_result, client_new_calls, flowVars, lib_scheme, h,
                   manager, public_ids, private_channel_ids, all_channel_ids,
                   subscribed, unsubscribed>>

\* sleep(5 s); cancel_order, cancel_all_orders_for_market, cancel_all_orders:
\* each result goes to info! whatever it is
main_CancelOrders ==
    /\ pc = "cancel"
    /\ \E r1 \in BOOLEAN, r2 \in BOOLEAN, r3 \in BOOLEAN :
         orders' = orders \o << [op |-> "cancel_order", ok |-> r1],
                                [op |-> "cancel_all_orders_for_market", ok |-> r2],
                                [op |-> "cancel_all_orders", ok |-> r3] >>
    /\ pc' = "collect"
    /\ UNCHANGED <<production, private_key, eth_account, starknet_account,
                   onboard_result, jwt_result, client_new_calls, flowVars, lib_scheme, h,
                   manager, public_ids, private_channel_ids, all_channel_ids,
                   subscribed, unsubscribed>>

\* sleep(120 s); all_channel_ids = vec![the six public ids];
\* all_channel_ids.extend(private_channel_ids)
main_Collect ==
    /\ pc = "collect"
    /\ all_channel_ids' = public_ids \o private_channel_ids
    /\ pc' = "unsubscribe"
    /\ UNCHANGED <<production, private_key, eth_account, starknet_account,
                   onboard_result, jwt_result, client_new_calls, flowVars, lib_scheme, h,
                   manager, public_ids, private_channel_ids,
                   subscribed, unsubscribed, orders>>

\* for id in all_channel_ids { manager.unsubscribe(id).await.unwrap(); }
main_Unsubscribe ==
    /\ pc = "unsubscribe"
    /\ IF all_channel_ids = <<>>
       THEN pc' = "stop" /\ UNCHANGED <<all_channel_ids, unsubscribed>>
       ELSE \E ok \in BOOLEAN :
              /\ unsubscribed' = Append(unsubscribed,
                                        [id |-> Head(all_channel_ids), ok |-> ok])
              /\ all_channel_ids' = Tail(all_channel_ids)
              /\ pc' = IF ok THEN "unsubscribe" ELSE "panicked"
    /\ UNCHANGED <<production, private_key, eth_account, starknet_account,
                   onboard_result, jwt_result, client_new_calls, flowVars, lib_scheme, h,
                   manager, public_ids, private_channel_ids, subscribed, orders>>

\* sleep(5 s); manager.stop().await.unwrap()
main_Stop ==
    /\ pc = "stop"
    /\ \E ok \in BOOLEAN :
         IF ok
         THEN manager' = "stopped" /\ pc' = "done"
         ELSE pc' = "panicked" /\ UNCHANGED manager
    /\ UNCHANGED <<production, private_key, eth_account, starknet_account,
                   onboard_result, jwt_result, client_new_calls, flowVars, lib_scheme, h,
                   public_ids, private_channel_ids, all_channel_ids,
                   subscribed, unsubscribed, orders>>

\* main started without a private key, or without one of the two account
\* addresses: perform_onboarding and get_jwt_token are not called
InitDemo ==
    /\ Init
    /\ private_key = NoneStr \/ eth_account = NoneStr \/ starknet_account = NoneStr

NextDemo ==
    \/ main_Start
    \/ main_ClientNew
    \/ main_WsNew
    \/ main_SubscribePublic
    \/ main_SubscribePrivate
    \/ main_Sleep
    \/ main_CreateOrder
    \/ main_ModifyOrder
    \/ main_CancelOrders
    \/ main_Collect
    \/ main_Unsubscribe
    \/ main_Stop

SpecDemo == InitDemo /\ [][NextDemo]_vars

-----------------------------------------------------------------------------
(* The pure functions of onboarding.rs, each applied to inputs drawn at    *)
(* Init: string_to_felt_hex and build_onboarding_typed_data (SpecEncode),  *)
(* the message hash of the two flows (SpecHash).  main() does not run.     *)

\* the two flows of onboarding.rs
Flows == {"perform_onboarding", "get_jwt_token"}

\* the bytes strings are drawn from: NUL, two bytes around the first byte of
\* the field prime (0x08), and 'A'
Alphabet == {0, 7, 8, 65}

\* lengths around the 31 bytes a felt can always hold
LongLens == {31, 32, 33}

\* every string over Alphabet up to MaxLen bytes, and long strings made of a
\* first byte and one repeated byte
EncStrings ==
    UNION {[1..k -> Alphabet] : k \in 0..MaxLen}
    \cup {<<b>> \o Rep(c, n - 1) : b \in Alphabet, c \in Alphabet, n \in LongLens}

\* the hex digits of the bytes of s, two per byte
Nibbles(s) == Concat([i \in 1..Len(s) |-> <<s[i] \div 16, s[i] % 16>>])

\* the byte-packed value of s is not below the field prime
Overflows(s) == ~FitsField(StripZeros(Nibbles(s)))

\* decode: the big-endian bytes of a felt, without leading zero bytes
Decode(f) ==
    LET ds == Tail(f)
        ev == IF Len(ds) % 2 = 1 THEN <<0>> \o ds ELSE ds
    IN  [i \in 1..(Len(ev) \div 2) |-> ev[2 * i - 1] * 16 + ev[2 * i]]

HarnessIdle ==
    /\ pc = "off"
    /\ production = FALSE
    /\ private_key = NoneStr
    /\ eth_account = NoneStr
    /\ starknet_account = NoneStr
    /\ FlowIdle

\* string_to_felt_hex(s)
EncodeStep ==
    /\ h.stage = "input"
    /\ h' = [h EXCEPT !.stage = "encoded", !.hex = string_to_felt_hex(h.s)]
    /\ UNCHANGED <<mainVars, flowVars, lib_scheme, demoVars>>

\* build_onboarding_typed_data(s): the chain id felt of the typed data, or
\* the panic of .expect
BuildStep ==
    /\ h.stage = "encoded"
    /\ \E td \in build_onboarding_typed_data(h.s) :
         h' = IF td.ok
              THEN [h EXCEPT !.stage = "built", !.felt = td.domain.chain_id]
              ELSE [h EXCEPT !.stage = "panicked"]
    /\ UNCHANGED <<mainVars, flowVars, lib_scheme, demoVars>>

\* decode of the chain id felt
DecodeStep ==
    /\ h.stage = "built"
    /\ h' = [h EXCEPT !.stage = "decoded", !.dec = Decode(h.felt)]
    /\ UNCHANGED <<mainVars, flowVars, lib_scheme, demoVars>>

InitEncode ==
    /\ HarnessIdle
    /\ lib_scheme = "schema"
    /\ h \in {[NoHarness EXCEPT !.stage = "input", !.s = s] : s \in EncStrings}

NextEncode ==
    \/ EncodeStep
    \/ BuildStep
    \/ DecodeStep

SpecEncode == InitEncode /\ [][NextEncode]_vars

\* the inputs of one message-hash computation
HashInputs ==
    [flow : Flows,
     chain : {SN_GOERLI, SN_MAIN},
     account : {<<48, 120, 49>>, <<48, 120, 50>>},          \* "0x1", "0x2"
     timestamp : {1700000000, 1700000001},
     expiration : {1700086400, 1700086401}]

\* the message hash a flow signs: build_*_typed_data, Felt::from_hex of the
\* account address, typed_data.message_hash(account_felt); ErrFelt when the
\* flow ends before it
FlowMessageHash(in) ==
    LET tds == IF in.flow = "perform_onboarding"
               THEN build_onboarding_typed_data(in.chain)
               ELSE build_auth_typed_data(in.chain, in.timestamp, in.expiration)
    IN  { IF ~td.ok \/ acc = ErrFelt THEN ErrFelt
          ELSE MessageHash(EncodedHash(td), td, acc)
          : td \in tds, acc \in FeltFromHex(in.account) }

\* the first computation
HashA ==
    /\ h.stage = "hash_input"
    /\ \E mh \in FlowMessageHash(h.a) : h' = [h EXCEPT !.stage = "a_done", !.ha = mh]
    /\ UNCHANGED <<mainVars, flowVars, lib_scheme, demoVars>>

\* the second computation
HashB ==
    /\ h.stage = "a_done"
    /\ \E mh \in FlowMessageHash(h.b) : h' = [h EXCEPT !.stage = "hashed", !.hb = mh]
    /\ UNCHANGED <<mainVars, flowVars, lib_scheme, demoVars>>

InitHash ==
    /\ HarnessIdle
    /\ lib_scheme \in {"schema", "other"}
    /\ h \in {[NoHarness EXCEPT !.stage = "hash_input", !.a = a, !.b = b] :
                a \in HashInputs, b \in HashInputs}

NextHash ==
    \/ HashA
    \/ HashB

SpecHash == InitHash /\ [][NextHash]_vars

-----------------------------------------------------------------------------
(* Properties of the demo process (Spec).                                  *)

\* the positions of seq's entries made by function fn
ByFn(seq, fn) == {i \in 1..Len(seq) : seq[i].fn = fn}

\* sub occurs in s
Contains(s, sub) ==
    \E i \in 1..(Len(s) - Len(sub) + 1) : SubSeq(s, i, i + Len(sub) - 1) = sub

\* the secret scalar of the private key (when it is hex)
KeyFelt == CHOOSE k \in FeltFromHex(private_key) : TRUE

C2_Original ==
    onboard_result.tag # "none" =>
        /\ onboard_result.tag = "Ok"
             <=> \E i \in ByFn(responses, "perform_onboarding") : is_success(responses[i].status)
        /\ \A i \in ByFn(responses, "perform_onboarding") :
             ~is_success(responses[i].status) =>
                /\ onboard_result.tag = "Err"
                /\ Contains(onboard_result.text, to_string(responses[i].status))
                /\ Contains(onboard_result.text, responses[i].body.text)

\* C2, amended: Onboard returns Ok exactly on a 2xx response; on any other
\* response it returns the error "Onboarding failed: " followed by the body
\* text, or by nothing when the body could not be read; the status is not
\* in the error.  A response is always answered by a return, never a panic.
C2_OnboardOutcome ==
    /\ onboard_result.tag # "none" =>
        /\ onboard_result.tag = "Ok"
             <=> \E i \in ByFn(responses, "perform_onboarding") : is_success(responses[i].status)
        /\ \A i \in ByFn(responses, "perform_onboarding") :
             ~is_success(responses[i].status) =>
                /\ onboard_result.tag = "Err"
                /\ onboard_result.err = "Onboarding failed: "
                /\ onboard_result.text \in {responses[i].body.text, <<>>}
                /\ ~Contains(onboard_result.text, to_string(responses[i].status))
    /\ (ByFn(responses, "perform_onboarding") # {} /\ call # "perform_onboarding")
          => onboard_result.tag # "none"

\* Onboard has answered a 409 with the error that holds the body
C2_Witness ==
    /\ onboard_result.tag = "Err"
    /\ \E i \in ByFn(responses, "perform_onboarding") :
         /\ responses[i].status = 409
         /\ responses[i].body.text # <<>>
         /\ onboard_result.text = responses[i].body.text

\* C3 as stated: a token is returned only on a 2xx response whose body has
\* jwt_token, and is that value; any other status gives an error carrying
\* the status and the body.
C3_Original ==
    jwt_result.tag # "none" =>
        /\ jwt_result.tag = "Ok" =>
             \E i \in ByFn(responses, "get_jwt_token") :
                /\ is_success(responses[i].status)
                /\ responses[i].body.jwt # NoneStr
                /\ jwt_result.token = responses[i].body.jwt
        /\ \A i \in ByFn(responses, "get_jwt_token") :
             ~is_success(responses[i].status) =>
                /\ jwt_result.tag = "Err"
                /\ Contains(jwt_result.text, to_string(responses[i].status))
                /\ Contains(jwt_result.text, responses[i].body.text)

\* C3, amended: a token is returned only on a 2xx response whose body has
\* jwt_token, and is that value; any other status gives the error
\* "JWT auth failed: " followed by the body text, or by nothing when the body
\* could not be read, without the status, and no token.
C3_AuthOutcome ==
    jwt_result.tag # "none" =>
        /\ jwt_result.tag = "Ok" =>
             \E i \in ByFn(responses, "get_jwt_token") :
                /\ is_success(responses[i].status)
                /\ responses[i].body.jwt # NoneStr
                /\ jwt_result.token = responses[i].body.jwt
        /\ \A i \in ByFn(responses, "get_jwt_token") :
             ~is_success(responses[i].status) =>
                /\ jwt_result.tag = "Err"
                /\ jwt_result.err = "JWT auth failed: "
                /\ jwt_result.text \in {responses[i].body.text, <<>>}
                /\ ~Contains(jwt_result.text, to_string(responses[i].status))
                /\ jwt_result.token = <<>>

\* Authenticate has refused a 409 whose body holds a jwt_token
C3_Witness ==
    /\ jwt_result.tag = "Err"
    /\ \E i \in ByFn(responses, "get_jwt_token") :
         /\ responses[i].status = 409
         /\ responses[i].body.jwt # NoneStr
         /\ jwt_result.text = responses[i].body.text

\* C4: in get_jwt_token the expiry is the timestamp plus 86400 seconds, and
\* once the request is out, its PARADEX-TIMESTAMP and
\* PARADEX-SIGNATURE-EXPIRATION headers are the decimal text of the
\* timestamp and expiration of the Request message whose hash was signed.
C4_ExpiryAndHeaders ==
    /\ (call = "get_jwt_token" /\ fpc \notin {"parse_key", "now"}) => expiry = now + 86400
    /\ (call = "get_jwt_token" /\ fpc \in {"await", "status"}) =>
         LET q == requests[Len(requests)]
             sg == signed[Len(signed)]
         IN  /\ q.fn = "get_jwt_token"
             /\ typed_data.message[5].num = typed_data.message[4].num + 86400
             /\ q.timestamp = to_string(typed_data.message[4].num)
             /\ q.signature_expiration = to_string(typed_data.message[5].num)
             /\ sg.fn = "get_jwt_token" /\ sg.ok
             /\ sg.hash = MessageHash(domain_hash, typed_data, account_felt)
             /\ q.starknet_signature = Sign(signing_key, sg.hash)

\* the request of an Authenticate at 1700000000 is out, expiring at 1700086400
C4_Witness ==
    /\ call = "get_jwt_token" /\ fpc = "await"
    /\ now = 1700000000
    /\ requests[Len(requests)].signature_expiration = <<49, 55, 48, 48, 48, 56, 54, 52, 48, 48>>

\* s is hex: an optional 0x, then one or more hex digits
ValidHex(s) ==
    LET body == IF HasPrefix0x(s) THEN Drop(s, 2) ELSE s
    IN  body # <<>> /\ \A i \in 1..Len(body) : HexVal(body[i]) # -1

BadKey == private_key # NoneStr /\ ~ValidHex(private_key)
BadAccount == starknet_account # NoneStr /\ ~ValidHex(starknet_account)

\* C5: with a private key or an account address that is no hex, nothing is
\* signed and nothing is sent, and what Onboard and Authenticate return is
\* the parse error of the key, or else of the address.
C5_KeyParseError ==
    (BadKey \/ BadAccount) =>
        /\ signed = <<>>
        /\ requests = <<>>
        /\ \A res \in {onboard_result, jwt_result} :
             res.tag # "none" =>
                /\ res.tag = "Err"
                /\ res.err = IF BadKey THEN "Failed to parse private key: "
                             ELSE "Failed to parse account address: "

\* both functions have returned the parse error of the account address
C5_Witness ==
    /\ BadAccount /\ ~BadKey
    /\ onboard_result.err = "Failed to parse account address: "
    /\ jwt_result.err = "Failed to parse account address: "

\* C6: each of the two functions sends at most one request, and a request
\* that was sent carries the signature of a hash the function signed before.
C6_AtMostOneRequest ==
    \A fn \in Flows :
        /\ Cardinality(ByFn(requests, fn)) <= 1
        /\ \A i \in ByFn(requests, fn) :
             \E j \in ByFn(signed, fn) :
                /\ signed[j].ok
                /\ requests[i].starknet_signature = Sign(KeyFelt, signed[j].hash)

\* both functions have returned, one request each, after an error answer
\* to the first and a transport failure of the second
C6_Witness ==
    /\ Len(requests) = 2
    /\ onboard_result.err = "Onboarding failed: "
    /\ jwt_result.err = "reqwest: "
    /\ ByFn(responses, "get_jwt_token") = {}

\* C7 as stated: once main has attempted onboarding and is past the
\* creation of the trading client, or has died, it has asked for the JWT
\* token and has called Client::new.
C7_Original ==
    (onboard_result.tag # "none" /\ pc \in {"panicked", "ws_new"})
        => (jwt_result.tag # "none" /\ client_new_calls = 1)

-----------------------------------------------------------------------------
(* Properties of the string encoding (SpecEncode).                         *)

\* C8 as stated: for a string whose byte-packed value does not fit the
\* field, the encoding returns no encoded value and nothing panics.
C8_Original ==
    Overflows(h.s) => (h.hex = <<>> /\ h.stage # "panicked")

\* the strings C9 speaks of: not empty, ASCII, at most 31 bytes
Short(s) == s # <<>> /\ Len(s) <= 31 /\ \A i \in 1..Len(s) : s[i] < 128

\* C9 as stated: for every non-empty ASCII string that fits the field,
\* decode(encode(s)) = s.
C9_Original ==
    (h.stage = "decoded" /\ Short(h.s)) => h.dec = h.s

\* C9, amended: every byte of a string becomes exactly two hex digits after
\* 0x and the empty string becomes felt zero; a string of at most 31 bytes
\* always gives typed data, and decode(encode(s)) is s without its leading
\* NUL bytes, so it is s whenever the first byte of s is not NUL.
C9_RoundTrip ==
    /\ h.stage # "input" =>
         /\ h.s = <<>> => h.hex = <<48, 120, 48>>
         /\ h.s # <<>> =>
              /\ Len(h.hex) = 2 + 2 * Len(h.s)
              /\ \A i \in 1..Len(h.s) :
                   HexVal(h.hex[2 * i + 1]) * 16 + HexVal(h.hex[2 * i + 2]) = h.s[i]
    /\ Len(h.s) <= 31 => h.stage # "panicked"
    /\ (h.stage \in {"built", "decoded"} /\ h.s = <<>>) => h.felt = FeltZero
    /\ (h.stage = "decoded" /\ Len(h.s) <= 31) =>
         /\ h.dec = StripZeros(h.s)
         /\ (h.s # <<>> /\ h.s[1] # 0) => h.dec = h.s

\* a 31-byte string that starts with 'A' has come back from decode
C9_Witness ==
    /\ h.stage = "decoded"
    /\ Len(h.s) = 31
    /\ h.s[1] = 65
    /\ h.dec = h.s

-----------------------------------------------------------------------------
(* Properties of the message hash (SpecHash).                              *)

\* what a flow's message hash is computed from
Effective(in) ==
    IF in.flow = "perform_onboarding"
    THEN <<in.chain, in.account>>
    ELSE <<in.chain, in.account, in.timestamp, in.expiration>>

\* the components in which two inputs of the same flow differ
Differing(a, b) == {i \in 1..Len(Effective(a)) : Effective(a)[i] # Effective(b)[i]}

\* C10: two message-hash computations of the same flow that agree on
\* everything except exactly one of the chain id, the account address or one
\* message field give different hashes, and two that agree on everything
\* give the same hash.
C10_DomainSeparation ==
    (h.stage = "hashed" /\ h.a.flow = h.b.flow) =>
        /\ h.ha # ErrFelt /\ h.hb # ErrFelt
        /\ Differing(h.a, h.b) = {} => h.ha = h.hb
        /\ Cardinality(Differing(h.a, h.b)) = 1 => h.ha # h.hb

\* scenario B: two auth messages that differ only in the expiration,
\* 1700086400 against 1700086401, have been hashed
C10_Witness ==
    /\ h.stage = "hashed"
    /\ h.a.flow = "get_jwt_token" /\ h.b.flow = "get_jwt_token"
    /\ h.a.chain = h.b.chain /\ h.a.account = h.b.account
    /\ h.a.timestamp = 1700000000 /\ h.b.timestamp = 1700000000
    /\ h.a.expiration = 1700086400 /\ h.b.expiration = 1700086401
    /\ h.ha # h.hb

-----------------------------------------------------------------------------
(* Properties of the demo's subscriptions (SpecDemo).                      *)

\* the unsubscribe calls made for identifier id
UnsubscribesOf(id) == {j \in 1..Len(unsubscribed) : unsubscribed[j].id = id}

\* C11 as stated: once main has ended, every channel id that a successful
\* subscribe returned has been unsubscribed exactly once (and never more
\* than once before); the six public channels are subscribed in every run
\* that ends normally; the manager is stopped only after all of those
\* unsubscribes have completed; without a private key no private channel is
\* subscribed and no order call is made.
C11_Original ==
    /\ \A i \in Granted : Cardinality(UnsubscribesOf(subscribed[i].id)) <= 1
    /\ pc \in {"done", "panicked"} =>
         \A i \in Granted :
            /\ Cardinality(UnsubscribesOf(subscribed[i].id)) = 1
            /\ \A j \in UnsubscribesOf(subscribed[i].id) : unsubscribed[j].ok
    /\ pc = "done" =>
         \A c \in 1..Len(PublicChannels) :
            \E i \in Granted : subscribed[i].channel = PublicChannels[c]
    /\ manager = "stopped" =>
         \A i \in Granted :
            \E j \in UnsubscribesOf(subscribed[i].id) : unsubscribed[j].ok
    /\ private_key = NoneStr =>
         /\ orders = <<>>
         /\ \A i \in 1..Len(subscribed) :
               \A c \in 1..Len(PrivateChannels) : subscribed[i].channel # PrivateChannels[c]

=============================================================================
